---- MODULE Spec2Model ----
(***************************************************************************)
(* BatchSnap: the batch conversion pipeline of src/App.tsx.  The React     *)
(* state (files, isProcessing, stats) is the program state; every setState *)
(* updater of a handler is applied in the order the handler issues it.     *)
(* The async function processQueue is cut at its suspension points (the    *)
(* awaits of lines 92, 104 and 106); pc is its position.                   *)
(***************************************************************************)
EXTENDS Integers, Sequences, FiniteSets, TLC

\* Bounds of the model (not program constants).
MaxFiles == 5      \* files ever added to the store (ids 1..MaxFiles)
MaxTime == 3       \* a run may start only while the clock is below MaxTime
BigBatch == 12     \* size of the one-drop batch of BatchInit
MaxZipFiles == 3   \* size of the stores that are packaged
MaxDim == 8        \* probed width / height of the images that are converted

\* Program constants.
BATCH_SIZE == 5    \* App.tsx:78
null == 0          \* App.tsx:17-18, startTime / endTime before any run
undefinedBlob == 0 \* types.ts:14, optional pdfBlob that is absent
undefinedError == ""            \* types.ts:15, optional error that is absent
FailedToConvert == "Failed to convert"   \* App.tsx:96

\* enum ConversionStatus, types.ts:1-7
IDLE == "IDLE"
QUEUED == "QUEUED"
PROCESSING == "PROCESSING"
COMPLETED == "COMPLETED"
ERROR == "ERROR"

VARIABLES
    files,         \* useState<FileData[]>, App.tsx:10
    isProcessing,  \* useState(false), App.tsx:11
    stats,         \* useState<ProcessingStats>, App.tsx:12-19
    pc,            \* position of processQueue: idle, loop, await, delay, rejected
    queue,         \* const queue of the running processQueue (ids, in order), App.tsx:79
    i,             \* loop variable of the execution loop, App.tsx:102
    tasks,         \* promises of the current batch: id -> pending/fulfilled/rejected
    nextId,        \* next fresh id (crypto.randomUUID never repeats), App.tsx:31
    now,           \* Date.now(), a logical clock
    waves,         \* history: the batches dispatched by the current run, in order
    invoked,       \* history: id -> number of convertImageToPDF calls in the current run
    outcome,       \* history: id -> TRUE (resolved) / FALSE (threw) of the conversions settled in the current run
    base,          \* history: the stats at the start of the current run
    download,      \* what the last handleDownloadZip did, App.tsx:113-124
    page           \* probed dimensions and the document convertImageToPDF set up

vars == <<files, isProcessing, stats, pc, queue, i, tasks, nextId, now, waves, invoked,
          outcome, base, download, page>>

\* No download has been requested.
NoDownload == [result |-> "none", entries |-> <<>>]

\* No conversion is looked at.
NoPage == [width |-> 0, height |-> 0, done |-> FALSE, orientation |-> "", unit |-> "",
           format |-> <<>>, image |-> <<>>]

\* The history variables of a run.
hist == <<outcome, base>>

Min(a, b) == IF a < b THEN a ELSE b

\* Array.prototype.slice(start, end) on a 0-based array: elements start .. end-1,
\* end clamped to the length.
slice(s, start, end) == SubSeq(s, start + 1, Min(end, Len(s)))

\* The ids of a list of FileData, in order.
Ids(fs) == [k \in 1..Len(fs) |-> fs[k].id]

Range(s) == {s[k] : k \in 1..Len(s)}

\* The initial / reset value of stats, App.tsx:12-19 and 53-60.
EmptyStats ==
    [total |-> 0, processed |-> 0, success |-> 0, failed |-> 0,
     startTime |-> null, endTime |-> null]

\* A new FileData built by handleFilesAdded, App.tsx:30-35.
NewFileData(id) ==
    [id |-> id, status |-> IDLE, pdfBlob |-> undefinedBlob, error |-> undefinedError]

\* { ...f, ...updates }: the fields of updates override those of f.
Merge(f, updates) ==
    [k \in DOMAIN f |-> IF k \in DOMAIN updates THEN updates[k] ELSE f[k]]

\* updateFileStatus, App.tsx:82-86.
updateFileStatus(fs, id, updates) ==
    [k \in 1..Len(fs) |-> IF fs[k].id = id THEN Merge(fs[k], updates) ELSE fs[k]]

\* Derived state of the render, App.tsx:127-130.
hasFiles == Len(files) > 0
completedCount == Cardinality({k \in 1..Len(files) : files[k].status = COMPLETED})
isAllCompleted == hasFiles /\ completedCount = Len(files)

Init ==
    /\ files = <<>>
    /\ isProcessing = FALSE
    /\ stats = EmptyStats
    /\ pc = "idle"
    /\ queue = <<>>
    /\ i = 0
    /\ tasks = <<>>
    /\ nextId = 1
    /\ now = 1
    /\ waves = <<>>
    /\ invoked = <<>>
    /\ outcome = <<>>
    /\ base = EmptyStats
    /\ download = NoDownload
    /\ page = NoPage

\* handleFilesAdded through the DropZone, which is disabled while processing.
AddFiles(n) ==
    /\ ~isProcessing
    /\ n >= 1
    /\ nextId + n - 1 <= MaxFiles
    /\ files' = files \o [k \in 1..n |-> NewFileData(nextId + k - 1)]
    /\ nextId' = nextId + n
    /\ UNCHANGED <<isProcessing, stats, pc, queue, i, tasks, now, waves, invoked, outcome, base, download, page>>

\* Mutant of RemoveFile: the remove button is rendered for an item of any status.
RemoveFile_anyStatus(id) ==
    /\ ~isProcessing
    /\ \E k \in 1..Len(files) : files[k].id = id
    /\ files' = SelectSeq(files, LAMBDA f : f.id # id)
    /\ UNCHANGED <<isProcessing, stats, pc, queue, i, tasks, nextId, now, waves, invoked,
                   outcome, base, download, page>>

\* handleRemoveFile, App.tsx:40-48; the remove button exists only for an IDLE item
\* while not processing (types.ts:74).
RemoveFile(id) ==
    /\ ~isProcessing
    /\ \E k \in 1..Len(files) : files[k].id = id /\ files[k].status = IDLE
    /\ files' = SelectSeq(files, LAMBDA f : f.id # id)
    /\ UNCHANGED <<isProcessing, stats, pc, queue, i, tasks, nextId, now, waves, invoked, outcome, base, download, page>>

\* Mutant of ClearAll: the Clear Queue button is rendered during a run as well.
ClearAll_duringRun ==
    /\ hasFiles
    /\ files' = <<>>
    /\ stats' = EmptyStats
    /\ UNCHANGED <<isProcessing, pc, queue, i, tasks, nextId, now, waves, invoked,
                   outcome, base, download, page>>

\* handleClearAll, App.tsx:50-61; the Clear Queue button exists while hasFiles and
\* not processing (App.tsx:223).
ClearAll ==
    /\ hasFiles
    /\ ~isProcessing
    /\ files' = <<>>
    /\ stats' = EmptyStats
    /\ UNCHANGED <<isProcessing, pc, queue, i, tasks, nextId, now, waves, invoked, outcome, base, download, page>>

\* Mutant of isEligible: every item that is not in flight is taken again.
isEligible_alsoDone(f) == f.status # QUEUED /\ f.status # PROCESSING

\* Mutant of isEligible: only the items that failed before are taken.
isEligible_onlyFailed(f) == f.status = ERROR

\* The eligibility filter of processQueue, App.tsx:79.
isEligible(f) == f.status = IDLE \/ f.status = ERROR

\* setFiles updater "Mark all IDLE as QUEUED", App.tsx:73-75.
markQueued(fs) ==
    [k \in 1..Len(fs) |->
        IF fs[k].status = IDLE THEN Merge(fs[k], [status |-> QUEUED]) ELSE fs[k]]

\* setStats updater at the start of a run, App.tsx:65-70.
startStats(prev, fs, t) ==
    [prev EXCEPT !.total = Len(fs), !.processed = 0, !.startTime = t]

\* Mutant of batchOf: the slice is one element too long.
batchOf_oversize(q, start) == slice(q, start, start + BATCH_SIZE + 1)

\* The batch of one loop iteration, App.tsx:103.
batchOf(q, start) == slice(q, start, start + BATCH_SIZE)

\* Mutant of loopStep: the step is one short of the batch size.
loopStep_short(start) == start + BATCH_SIZE - 1

\* The loop step, App.tsx:102 (i += BATCH_SIZE).
loopStep(start) == start + BATCH_SIZE

\* Mutant of processFileResult: the failure of the conversion is not caught.
processFileResult_uncaught(threw) == IF threw THEN "rejected" ELSE "fulfilled"

\* How the promise of processFile settles, given whether convertImageToPDF threw:
\* the try path and the catch path both complete normally, App.tsx:91-98.
processFileResult(threw) == "fulfilled"

\* Mutant of PromiseAll: the first fulfilled member resumes the loop (Promise.any).
PromiseAll_any(ts, members) ==
    IF \E id \in members : ts[id] = "fulfilled" THEN "fulfilled"
    ELSE IF \A id \in members : ts[id] = "rejected" THEN "rejected"
    ELSE "pending"

\* Promise.all over the promises of the members of a batch, App.tsx:104: rejected
\* as soon as one member is rejected, fulfilled once every member is fulfilled.
PromiseAll(ts, members) ==
    IF \E id \in members : ts[id] = "rejected" THEN "rejected"
    ELSE IF \A id \in members : ts[id] = "fulfilled" THEN "fulfilled"
    ELSE "pending"

\* The Convert button exists while hasFiles, not processing and not all completed
\* (App.tsx:193).  processQueue up to its execution loop, App.tsx:64-79.
StartRun ==
    /\ pc = "idle"
    /\ hasFiles /\ ~isProcessing /\ ~isAllCompleted
    /\ now < MaxTime
    /\ isProcessing' = TRUE
    /\ stats' = startStats(stats, files, now)
    /\ files' = markQueued(files)
    /\ queue' = Ids(SelectSeq(files, isEligible))
    /\ i' = 0
    /\ pc' = "loop"
    /\ waves' = <<>>
    /\ invoked' = [id \in {files[k].id : k \in 1..Len(files)} |-> 0]
    /\ tasks' = <<>>
    /\ outcome' = <<>>
    /\ base' = stats
    /\ UNCHANGED <<nextId, now, download, page>>

\* One loop iteration up to its await: every member of the batch runs processFile
\* up to the await of convertImageToPDF, App.tsx:102-104 and 89-92.
DispatchWave ==
    /\ pc = "loop"
    /\ i < Len(queue)
    /\ LET batch == batchOf(queue, i)
           members == Range(batch)
       IN /\ files' = [k \in 1..Len(files) |->
                          IF files[k].id \in members
                          THEN Merge(files[k], [status |-> PROCESSING])
                          ELSE files[k]]
          /\ tasks' = [id \in DOMAIN tasks \cup members |->
                          IF id \in members THEN "pending" ELSE tasks[id]]
          /\ waves' = Append(waves, batch)
          /\ invoked' = [id \in DOMAIN invoked |->
                            IF id \in members THEN invoked[id] + 1 ELSE invoked[id]]
    /\ pc' = "await"
    /\ UNCHANGED <<isProcessing, stats, queue, i, nextId, now, outcome, base, download, page>>

\* Mutant of settleStats: success is derived from the wrong counter.
settleStats_wrongCounter(prev, ok) ==
    IF ok THEN [prev EXCEPT !.processed = @ + 1, !.success = prev.processed + 1]
    ELSE [prev EXCEPT !.processed = @ + 1, !.failed = @ + 1]

\* Mutant of settleStats: processed is computed from the value that was current
\* when the wave was dispatched instead of from the previous state.
settleStats_stale(prev, ok) ==
    IF ok THEN [prev EXCEPT !.processed = i + 1, !.success = @ + 1]
    ELSE [prev EXCEPT !.processed = i + 1, !.failed = @ + 1]

\* The setStats updaters of processFile, App.tsx:94 and 97.
settleStats(prev, ok) ==
    IF ok THEN [prev EXCEPT !.processed = @ + 1, !.success = @ + 1]
    ELSE [prev EXCEPT !.processed = @ + 1, !.failed = @ + 1]

\* convertImageToPDF of one in-flight item settles and processFile runs to its end,
\* App.tsx:92-98.  ok: the conversion resolved with a Blob; otherwise it threw
\* (unnamed/part_000:37-40 rethrows).
Settle(id, ok) ==
    /\ id \in DOMAIN tasks
    /\ tasks[id] = "pending"
    /\ IF ok
       THEN files' = updateFileStatus(files, id, [status |-> COMPLETED, pdfBlob |-> now])
       ELSE files' = updateFileStatus(files, id, [status |-> ERROR, error |-> FailedToConvert])
    /\ stats' = settleStats(stats, ok)
    /\ tasks' = [tasks EXCEPT ![id] = processFileResult(~ok)]
    /\ outcome' = [d \in DOMAIN outcome \cup {id} |-> IF d = id THEN ok ELSE outcome[d]]
    /\ UNCHANGED <<isProcessing, pc, queue, i, nextId, now, waves, invoked, base, download, page>>

\* The await of Promise.all resumes, App.tsx:104; a rejection would leave
\* processQueue through an exception, skipping lines 105-110.
AwaitAll ==
    /\ pc = "await"
    /\ LET settled == PromiseAll(tasks, Range(batchOf(queue, i)))
       IN /\ settled # "pending"
          /\ pc' = IF settled = "fulfilled" THEN "delay" ELSE "rejected"
    /\ UNCHANGED <<files, isProcessing, stats, queue, i, tasks, nextId, now, waves, invoked, outcome, base, download, page>>

\* The 50 ms timer fires and the loop steps, App.tsx:106 and 102.
DelayElapsed ==
    /\ pc = "delay"
    /\ now' = now + 1
    /\ i' = loopStep(i)
    /\ pc' = "loop"
    /\ UNCHANGED <<files, isProcessing, stats, queue, tasks, nextId, waves, invoked, outcome, base, download, page>>

\* Mutant of FinishRun: setIsProcessing(false) is missing.
FinishRun_stillProcessing ==
    /\ pc = "loop"
    /\ ~(i < Len(queue))
    /\ stats' = [stats EXCEPT !.endTime = now]
    /\ pc' = "idle"
    /\ queue' = <<>>
    /\ i' = 0
    /\ tasks' = <<>>
    /\ waves' = <<>>
    /\ invoked' = <<>>
    /\ outcome' = <<>>
    /\ base' = EmptyStats
    /\ UNCHANGED <<files, isProcessing, nextId, now, download, page>>

\* The loop has ended, App.tsx:109-110.
FinishRun ==
    /\ pc = "loop"
    /\ ~(i < Len(queue))
    /\ stats' = [stats EXCEPT !.endTime = now]
    /\ isProcessing' = FALSE
    /\ pc' = "idle"
    /\ queue' = <<>>
    /\ i' = 0
    /\ tasks' = <<>>
    /\ waves' = <<>>
    /\ invoked' = <<>>
    /\ outcome' = <<>>
    /\ base' = EmptyStats
    /\ UNCHANGED <<files, nextId, now, download, page>>

Next ==
    \/ \E n \in 1..MaxFiles : AddFiles(n)
    \/ \E id \in Range(Ids(files)) : RemoveFile(id)
    \/ ClearAll
    \/ StartRun
    \/ DispatchWave
    \/ \E id \in DOMAIN tasks, ok \in BOOLEAN : Settle(id, ok)
    \/ AwaitAll
    \/ DelayElapsed
    \/ FinishRun

Spec == Init /\ [][Next]_vars

\* The state right after BigBatch files were dropped into the empty store in one
\* drop and Convert was clicked: handleFilesAdded, then processQueue up to its
\* loop.  The clock stands at the last instant at which a run may start.
BatchInit ==
    LET dropped == [k \in 1..BigBatch |-> NewFileData(k)]
    IN /\ files = markQueued(dropped)
       /\ isProcessing = TRUE
       /\ now = MaxTime - 1
       /\ stats = startStats(EmptyStats, dropped, now)
       /\ pc = "loop"
       /\ queue = Ids(SelectSeq(dropped, isEligible))
       /\ i = 0
       /\ tasks = <<>>
       /\ nextId = BigBatch + 1
       /\ waves = <<>>
       /\ invoked = [id \in Range(Ids(dropped)) |-> 0]
       /\ outcome = <<>>
       /\ base = EmptyStats
       /\ download = NoDownload
       /\ page = NoPage

\* The sessions of Spec together with the session that starts with one big batch.
SpecBatch == (Init \/ BatchInit) /\ [][Next]_vars

\* A step of the running processQueue or of a conversion in flight.
RunStep ==
    \/ DispatchWave
    \/ \E id \in DOMAIN tasks, ok \in BOOLEAN : Settle(id, ok)
    \/ AwaitAll
    \/ DelayElapsed
    \/ FinishRun

\* The scheduling of the host event loop: while a continuation of processQueue can
\* resume, a timer can fire or a conversion in flight can settle (the proviso of the
\* termination claim), one of them eventually does.  User actions are not fair.
FairSpec == SpecBatch /\ WF_vars(RunStep)

(***************************************************************************)
(* Packaging: handleDownloadZip and createZipFromFiles.  A file name is    *)
(* the sequence of its parts between the dots: "a.jpg" is <<"a", "jpg">>.  *)
(* In these sessions a FileData carries the name of its file.              *)
(***************************************************************************)

\* The display names of the files that are packaged.
Names == {<<"a", "jpg">>, <<"a", "jpeg">>, <<"b", "jpg">>, <<"a">>}

\* name.replace(/\.[^/.]+$/, ""): a final dot followed by at least one character
\* (none of them a dot or a slash) is removed.  unnamed/part_000:50.
stripExtension(name) ==
    IF Len(name) >= 2 /\ name[Len(name)] # ""
    THEN SubSeq(name, 1, Len(name) - 1)
    ELSE name

\* The entry name of an item, unnamed/part_000:50.
pdfName(name) == Append(stripExtension(name), "pdf")

\* folder.file(fileName, blob) of JSZip: an entry of that name is replaced.
zipFile(entries, fileName, blob) ==
    [n \in DOMAIN entries \cup {fileName} |-> IF n = fileName THEN blob ELSE entries[n]]

\* createZipFromFiles, unnamed/part_000:43-56: the file entries of the archive
\* after files.forEach, entry name -> [blob, id of the item it came from].
RECURSIVE createZipFromFiles(_)
createZipFromFiles(fs) ==
    IF fs = <<>> THEN <<>>
    ELSE LET rest == createZipFromFiles(SubSeq(fs, 1, Len(fs) - 1))
             file == fs[Len(fs)]
         IN IF file.pdfBlob # undefinedBlob
            THEN zipFile(rest, pdfName(file.name), [blob |-> file.pdfBlob, of |-> file.id])
            ELSE rest

\* The filter of handleDownloadZip, App.tsx:114.
completedFiles(fs) ==
    SelectSeq(fs, LAMBDA f : f.status = COMPLETED /\ f.pdfBlob # undefinedBlob)

\* handleDownloadZip, App.tsx:113-124, called on the current store.  zipOk: whether
\* zip.generateAsync resolved.  (The button that calls it is rendered only while
\* completedCount > 0 and not processing, App.tsx:213; the handler has its own
\* check of the empty case, line 115, which is what is modelled.)
DownloadZip(zipOk) ==
    /\ ~isProcessing
    /\ download = NoDownload
    /\ download' =
          IF Len(completedFiles(files)) = 0
          THEN [result |-> "returned", entries |-> <<>>]
          ELSE IF zipOk
          THEN [result |-> "saved", entries |-> createZipFromFiles(completedFiles(files))]
          ELSE [result |-> "alert", entries |-> <<>>]
    /\ UNCHANGED <<files, isProcessing, stats, pc, queue, i, tasks, nextId, now, waves,
                   invoked, outcome, base, page>>

\* A FileData together with the name of its file, as a run leaves it (Done with the
\* blob of that run, or Failed with the error) or as handleFilesAdded builds it.
NamedFileData(id, name, status, t) ==
    [id |-> id, name |-> name, status |-> status,
     pdfBlob |-> IF status = COMPLETED THEN t ELSE undefinedBlob,
     error |-> IF status = ERROR THEN FailedToConvert ELSE undefinedError]

\* The stores that are packaged: the first run of a session converted the first m
\* items (one wave, each Done or Failed), and the other items were added after it.
ZipInit ==
    \E n \in 0..MaxZipFiles : \E m \in 0..Min(n, BATCH_SIZE) :
    \E names \in [1..n -> Names] : \E st \in [1..m -> {COMPLETED, ERROR}] :
        /\ files = [k \in 1..n |->
                       NamedFileData(k, names[k], IF k <= m THEN st[k] ELSE IDLE, 1)]
        /\ isProcessing = FALSE
        /\ stats = IF m = 0 THEN EmptyStats
                   ELSE [total |-> m, processed |-> m,
                         success |-> Cardinality({k \in 1..m : st[k] = COMPLETED}),
                         failed |-> Cardinality({k \in 1..m : st[k] = ERROR}),
                         startTime |-> 1, endTime |-> 2]
        /\ now = IF m = 0 THEN 1 ELSE 2
        /\ nextId = n + 1
        /\ pc = "idle"
        /\ queue = <<>>
        /\ i = 0
        /\ tasks = <<>>
        /\ waves = <<>>
        /\ invoked = <<>>
        /\ outcome = <<>>
        /\ base = EmptyStats
        /\ download = NoDownload
        /\ page = NoPage

ZipNext == \E zipOk \in BOOLEAN : DownloadZip(zipOk)

\* The sessions in which Download ZIP is requested.
SpecZip == ZipInit /\ [][ZipNext]_vars

(***************************************************************************)
(* Conversion: what convertImageToPDF asks of jsPDF for an image whose     *)
(* probe (getImageDimensions) resolved with the given width and height.    *)
(***************************************************************************)

\* Mutant of pageOrientation: a square image is laid out as landscape.
pageOrientation_square(width, height) == IF width >= height THEN "l" ELSE "p"

\* The orientation of the page, unnamed/part_000:19.
pageOrientation(width, height) == IF width > height THEN "l" ELSE "p"

\* The options of new jsPDF(...) and the placement of addImage,
\* unnamed/part_000:20-25 and 34.
convertImageToPDF(width, height) ==
    [width |-> width, height |-> height, done |-> TRUE,
     orientation |-> pageOrientation(width, height),
     unit |-> "px",
     format |-> <<width, height>>,
     image |-> <<0, 0, width, height>>]

\* An image of some width and height is about to be converted.
ConvertInit ==
    /\ \E w \in 1..MaxDim, h \in 1..MaxDim :
           page = [NoPage EXCEPT !.width = w, !.height = h]
    /\ files = <<>>
    /\ isProcessing = FALSE
    /\ stats = EmptyStats
    /\ pc = "idle"
    /\ queue = <<>>
    /\ i = 0
    /\ tasks = <<>>
    /\ nextId = 1
    /\ now = 1
    /\ waves = <<>>
    /\ invoked = <<>>
    /\ outcome = <<>>
    /\ base = EmptyStats
    /\ download = NoDownload

\* convertImageToPDF runs from the resolved probe to pdf.output.
ConvertPage ==
    /\ ~page.done
    /\ page.width > 0
    /\ page' = convertImageToPDF(page.width, page.height)
    /\ UNCHANGED <<files, isProcessing, stats, pc, queue, i, tasks, nextId, now, waves,
                   invoked, outcome, base, download>>

ConvertNext == ConvertPage

\* The conversions of single images.
SpecConvert == ConvertInit /\ [][ConvertNext]_vars

(***************************************************************************)
(* Properties                                                              *)
(***************************************************************************)

\* The positions of the store.
Pos == 1..Len(files)

\* The status in the store fs of the item with the given id.
StatusIn(fs, id) == (CHOOSE f \in Range(fs) : f.id = id).status

InProgress == {k \in Pos : files[k].status = PROCESSING}

Ceil(n, k) == (n + k - 1) \div k

\* processQueue has run its loop to the end and is about to execute lines 109-110.
LoopEnded == pc = "loop" /\ ~(i < Len(queue))

\* C1: in every reachable state processed = success + failed and processed <= total.
C1_StatsInvariant ==
    /\ stats.processed = stats.success + stats.failed
    /\ stats.processed <= stats.total

\* C2: the step that starts a run sets total to the number of items whose status
\* is Idle or Failed at that moment.
C2_TotalIsEligibleCount ==
    [][(pc = "idle" /\ pc' = "loop") =>
          stats'.total = Cardinality({k \in Pos : files[k].status \in {IDLE, ERROR}})]_vars

\* C3: at no instant are more than BATCH_SIZE = 5 items InProgress.
C3_ConcurrencyBound == Cardinality(InProgress) <= BATCH_SIZE

\* A full wave of 5 is in flight while further eligible items wait.
C3_Witness ==
    /\ Cardinality(InProgress) = BATCH_SIZE
    /\ \E k \in Pos : files[k].status = QUEUED

\* C4: whenever a later wave has been dispatched, every item of every earlier wave
\* has settled (Done or Failed), also when items of the earlier wave failed.
C4_WaveBarrier ==
    \A w \in 1..Len(waves) : \A v \in 1..(w - 1) : \A id \in Range(waves[v]) :
        /\ tasks[id] # "pending"
        /\ StatusIn(files, id) \in {COMPLETED, ERROR}

\* The second wave is in flight after a first wave in which an item failed.
C4_Witness ==
    /\ Len(waves) = 2
    /\ \E id \in Range(waves[1]) : StatusIn(files, id) = ERROR
    /\ \E id \in Range(waves[2]) : StatusIn(files, id) = PROCESSING

\* C5: wave w (1-based) is exactly the queue positions (w-1)*K+1 .. min(n, w*K), the
\* queue follows the store order, a finished loop has dispatched ceil(n/K) waves and
\* every queued item belongs to exactly one of them.
C5_WavePartition ==
    LET n == Len(queue)
    IN /\ \A w \in 1..Len(waves) :
              waves[w] = [k \in 1..(Min(n, w * BATCH_SIZE) - (w - 1) * BATCH_SIZE) |->
                              queue[(w - 1) * BATCH_SIZE + k]]
       /\ \A w \in 1..(Len(waves) - 1) : Len(waves[w]) = BATCH_SIZE
       /\ pc # "idle" =>
              queue = Ids(SelectSeq(files, LAMBDA f : f.id \in Range(queue)))
       /\ \A id \in Range(queue) :
              Cardinality({w \in 1..Len(waves) : id \in Range(waves[w])}) <= 1
       /\ LoopEnded =>
              /\ Len(waves) = Ceil(n, BATCH_SIZE)
              /\ \A id \in Range(queue) :
                     Cardinality({w \in 1..Len(waves) : id \in Range(waves[w])}) = 1

\* A batch of more than two full waves has been dispatched: full waves followed by
\* the remainder (12 items give waves of sizes 5, 5, 2).
C5_Witness ==
    /\ LoopEnded
    /\ Len(queue) = BigBatch
    /\ Len(waves) = 3
    /\ Len(waves[1]) = BATCH_SIZE
    /\ Len(waves[2]) = BATCH_SIZE
    /\ Len(waves[3]) = BigBatch - 2 * BATCH_SIZE
    /\ Len(waves[3]) < BATCH_SIZE

\* C6: a failed conversion is caught at its item, which is recorded as Failed with
\* an error message; processQueue never ends in an exception; and when the loop has
\* ended every queued item, of the failing wave and of the later ones, has been
\* handed to the converter and is Done or Failed.
C6_FailureIsolation ==
    /\ pc # "rejected"
    /\ \A id \in DOMAIN tasks : tasks[id] # "rejected"
    /\ \A k \in Pos : files[k].status = ERROR => files[k].error = FailedToConvert
    /\ LoopEnded =>
           \A id \in Range(queue) :
               /\ invoked[id] >= 1
               /\ StatusIn(files, id) \in {COMPLETED, ERROR}

\* A run of several waves has ended in which an item of the first wave failed while
\* another item of the first wave and the items of the second wave were converted.
C6_Witness ==
    /\ LoopEnded
    /\ Len(waves) > 2
    /\ \E id \in Range(waves[1]) : StatusIn(files, id) = ERROR
    /\ \E id \in Range(waves[1]) : StatusIn(files, id) = COMPLETED
    /\ \A id \in Range(waves[2]) : StatusIn(files, id) = COMPLETED

\* C7: under FairSpec every run eventually ends, and at the step that ends it every
\* item that was queued at its start (and every item of the store) is Done or Failed.
C7_Termination ==
    /\ isProcessing ~>
           (~isProcessing /\ \A k \in Pos : files[k].status \in {COMPLETED, ERROR})
    /\ [][(isProcessing /\ ~isProcessing') =>
              \A id \in Range(queue) : StatusIn(files', id) \in {COMPLETED, ERROR}]_vars

\* A run of several waves has ended with converted and failed items.
C7_Witness ==
    /\ ~isProcessing
    /\ stats.endTime # null
    /\ stats.processed > 2 * BATCH_SIZE
    /\ \E k \in Pos : files[k].status = COMPLETED
    /\ \E k \in Pos : files[k].status = ERROR

\* C8: for every item the artifact is present iff the status is Done, and the error
\* message is present iff the status is Failed.
C8_ArtifactAndError ==
    \A k \in Pos :
        /\ files[k].pdfBlob # undefinedBlob <=> files[k].status = COMPLETED
        /\ files[k].error # undefinedError <=> files[k].status = ERROR

\* The transition table of the item state machine.
AllowedTransitions ==
    {<<IDLE, QUEUED>>, <<ERROR, QUEUED>>, <<QUEUED, PROCESSING>>,
     <<PROCESSING, COMPLETED>>, <<PROCESSING, ERROR>>}

\* C9: every status change of an item that stays in the store is one of the
\* allowed transitions.
C9_AllowedTransitions ==
    [][\A k \in Pos : \A m \in 1..Len(files') :
          (files[k].id = files'[m].id /\ files[k].status # files'[m].status) =>
              <<files[k].status, files'[m].status>> \in AllowedTransitions]_vars

\* C10: the queue of a run is exactly the items that are Idle or Failed when it
\* starts; only queued items are ever set InProgress, and each of them has been
\* handed to the converter when the loop ends; an item that is Done stays Done
\* with the same artifact for as long as it is in the store.
C10_EligibleExactly ==
    [][/\ (pc = "idle" /\ pc' = "loop") =>
              Range(queue') = {files[k].id : k \in {j \in Pos : files[j].status \in {IDLE, ERROR}}}
       /\ \A k \in Pos : \A m \in 1..Len(files') :
              files[k].id = files'[m].id =>
                  /\ (files[k].status # PROCESSING /\ files'[m].status = PROCESSING) =>
                         (files[k].id \in Range(queue) /\ files[k].status # COMPLETED)
                  /\ files[k].status = COMPLETED =>
                         (files'[m].status = COMPLETED /\ files'[m].pdfBlob = files[k].pdfBlob)
       /\ (pc = "loop" /\ pc' = "idle") =>
              \A id \in Range(queue) : invoked[id] >= 1]_vars

\* In a second run an item that failed in the first run has become Done (it still
\* carries the error of the first run) next to an item that the first run converted.
C10_Witness ==
    /\ isProcessing
    /\ \E k \in Pos : /\ files[k].status = COMPLETED
                      /\ files[k].error = FailedToConvert
                      /\ files[k].pdfBlob = stats.startTime
    /\ \E k \in Pos : /\ files[k].status = COMPLETED
                      /\ files[k].pdfBlob # undefinedBlob
                      /\ files[k].pdfBlob < stats.startTime

\* C11: when a run has ended (and until the store is cleared), processed equals
\* total and success + failed equals total.
C11_FinalCounts ==
    (~isProcessing /\ stats.endTime # null) =>
        /\ stats.processed = stats.total
        /\ stats.success + stats.failed = stats.total

\* The ids whose conversion settled in the current run with the given outcome.
SettledWith(ok) == {id \in DOMAIN outcome : outcome[id] = ok}

\* C12: the status of every settled item and the success and failed counts are
\* determined by the outcomes of the conversions alone, whatever the order in which
\* the conversions of a wave settled; in particular so are the final ones.
C12_OrderIndependence ==
    isProcessing =>
        /\ \A id \in DOMAIN outcome :
               StatusIn(files, id) = IF outcome[id] THEN COMPLETED ELSE ERROR
        /\ stats.success = base.success + Cardinality(SettledWith(TRUE))
        /\ stats.failed = base.failed + Cardinality(SettledWith(FALSE))

\* The loop has ended after a wave in which a later item of the store failed and
\* an earlier one was converted, and one in which it is the other way round: the
\* settlements of different outcome happened in some order.
C12_Witness ==
    /\ LoopEnded
    /\ Len(waves) >= 1
    /\ \E a, b \in Range(waves[1]) : a < b /\ outcome[a] /\ ~outcome[b]
    /\ \E a, b \in Range(waves[1]) : a < b /\ ~outcome[a] /\ outcome[b]

\* C13: every settlement of an in-flight item increases processed by exactly 1 and
\* exactly one of success / failed by exactly 1, according to the new status of the
\* item; during a run processed is the number of items settled so far in that run.
C13_NoLostUpdate ==
    /\ [](isProcessing =>
              stats.processed = Cardinality({id \in DOMAIN tasks : tasks[id] # "pending"}))
    /\ [][\A id \in DOMAIN tasks :
              (tasks[id] = "pending" /\ tasks'[id] # "pending") =>
                  /\ stats'.processed = stats.processed + 1
                  /\ \/ /\ StatusIn(files', id) = COMPLETED
                        /\ stats'.success = stats.success + 1
                        /\ stats'.failed = stats.failed
                     \/ /\ StatusIn(files', id) = ERROR
                        /\ stats'.failed = stats.failed + 1
                        /\ stats'.success = stats.success]_vars

\* Several items of one wave have settled back to back, with both outcomes, while
\* others of the wave are still in flight.
C13_Witness ==
    /\ pc = "await"
    /\ stats.processed >= 3
    /\ stats.success >= 1
    /\ stats.failed >= 1
    /\ \E id \in DOMAIN tasks : tasks[id] = "pending"

\* The Done items of the store.
DoneItems == {k \in Pos : files[k].status = COMPLETED}

\* C14: a produced archive contains exactly one entry per item that is Done at
\* packaging time, also when the names of two Done items map to the same entry name.
C14_ArchiveComplete ==
    download.result = "saved" =>
        /\ Cardinality(DOMAIN download.entries) = Cardinality(DoneItems)
        /\ \A k \in DoneItems : \E n \in DOMAIN download.entries :
               download.entries[n].of = files[k].id

Leaving(k) == \A m \in 1..Len(files') : files'[m].id # files[k].id

C17_TotalFixed ==
    [][isProcessing => stats'.total = stats.total]_vars

\* A run is under way: items have settled and others are still in flight.
C17_Witness ==
    /\ isProcessing
    /\ stats.total > 0
    /\ stats.processed > 0
    /\ stats.processed < stats.total
    /\ \E id \in DOMAIN tasks : tasks[id] = "pending"

\* C20: within a run the converter is called at most once per item and only for
\* queued items, exactly once for each of them when the loop has ended; and an item
\* that is Failed changes its status only when a later run dispatches it.
C20_NoRetry ==
    /\ [](\A id \in DOMAIN invoked :
              /\ invoked[id] <= 1
              /\ invoked[id] = 1 => id \in Range(queue))
    /\ [](LoopEnded => \A id \in Range(queue) : invoked[id] = 1)
    /\ [][\A k \in Pos : \A m \in 1..Len(files') :
              (/\ files[k].id = files'[m].id
               /\ files[k].status = ERROR
               /\ files'[m].status # ERROR) =>
                  (pc = "loop" /\ invoked[files[k].id] = 0)]_vars

\* A run of several waves has ended in which an item of the first wave failed: it
\* was handed to the converter once and is still Failed.
C20_Witness ==
    /\ LoopEnded
    /\ Len(waves) > 1
    /\ \E id \in Range(waves[1]) : ~outcome[id] /\ StatusIn(files, id) = ERROR /\ invoked[id] = 1

\* C19: the page that is set up for an image of width w and height h has the
\* format [w, h] in px units, and its orientation is landscape if w > h and
\* portrait otherwise (a square image is portrait).
C19_PageSetup ==
    page.done =>
        /\ page.format = <<page.width, page.height>>
        /\ page.unit = "px"
        /\ page.width > page.height => page.orientation = "l"
        /\ page.width <= page.height => page.orientation = "p"

\* A square image has been converted.
C19_Witness ==
    /\ page.done
    /\ page.width = page.height
    /\ page.orientation = "p"

\* C21: endTime is unset while a run is in progress (in a second run as well), it
\* is set only by the step that ends a run, and whenever it is set it is not
\* earlier than startTime.
C21_EndTimeOfLastRun ==
    /\ [](isProcessing => stats.endTime = null)
    /\ [](stats.endTime # null => stats.endTime >= stats.startTime)
    /\ [][(stats'.endTime # null /\ stats'.endTime # stats.endTime) =>
              (LoopEnded /\ pc' = "idle")]_vars

\* The ids that the waves of the current run have dispatched.
Dispatched == UNION {Range(waves[w]) : w \in 1..Len(waves)}

\* C22: while no run is in progress no item is Queued or InProgress; the items that
\* the start of a run marks Queued together with the items that are Failed then are
\* exactly the queue of the run, the waves dispatch exactly the queue, and at the
\* step that ends the run each of them has been dispatched and has settled.
C22_NothingLeftQueued ==
    /\ [](~isProcessing => \A k \in Pos : files[k].status \notin {QUEUED, PROCESSING})
    /\ [](Dispatched \subseteq Range(queue))
    /\ [][/\ (pc = "idle" /\ pc' = "loop") =>
                 Range(queue') =
                     {files[k].id : k \in {j \in Pos : /\ files[j].status # QUEUED
                                                       /\ files'[j].status = QUEUED}}
                     \cup {files[k].id : k \in {j \in Pos : files[j].status = ERROR}}
          /\ (isProcessing /\ ~isProcessing') =>
                 /\ Dispatched = Range(queue)
                 /\ \A id \in Range(queue) :
                        /\ tasks[id] = "fulfilled"
                        /\ StatusIn(files', id) \in {COMPLETED, ERROR}]_vars

\* A second run has ended: it converted an item that was Failed when it started
\* and an item that it had marked Queued, and nothing is Queued or InProgress.
C22_Witness ==
    /\ ~isProcessing
    /\ stats.endTime # null
    /\ \E k \in Pos : /\ files[k].status = COMPLETED
                      /\ files[k].error = FailedToConvert
                      /\ files[k].pdfBlob = stats.startTime
    /\ \E k \in Pos : /\ files[k].status = COMPLETED
                      /\ files[k].error = undefinedError
                      /\ files[k].pdfBlob = stats.startTime

====
